---------------------------- MODULE Spec2Model ----------------------------
(***************************************************************************)
(* win_run: ProcessBuilder::run and the wrappers it calls, as a state      *)
(* machine.  One step of the machine is one OS call (or one return of a    *)
(* function that makes no OS call).  The OS decides the outcome of every   *)
(* call; the model draws it nondeterministically.                          *)
(*                                                                         *)
(* A Rust String is a sequence of text chunks; the chunk NUL stands for    *)
(* the character U+0000.  A Vec<String> of error messages is a sequence    *)
(* of lines, a line is a sequence of chunks, and join("\n") keeps the      *)
(* lines in order.                                                         *)
(***************************************************************************)
EXTENDS Naturals, Sequences, FiniteSets

\* Number of distinct platform error codes the OS may report.
MaxErr == 2

ErrCodes == 1 .. MaxErr

\* The invocations of run.  Under Spec, "A" alone builds a request and runs it.
Procs == {"A", "B"}

NUL == "<NUL>"

\* The null handle, HANDLE::default().
NullHandle == 0

Paths == { <<"app.exe">>, <<"app", NUL, ".exe">> }

ArgStrings == { <<>>, <<"-v">>, <<"-v", NUL, "x">> }

DirStrings == { <<"C:\\tools">>, <<"C:", NUL, "tools">> }

\* std::env::current_exe(), as its components.
CurrentExe == << "C:\\svc", "host.exe" >>

Elevations == {"User", "Admin", "LocalSystem"}

Desktops == {"Default", "Secure"}

TOKEN_ACCESS == {"TOKEN_QUERY", "TOKEN_DUPLICATE", "TOKEN_ASSIGN_PRIMARY"}

VARIABLES
    pc,            \* [Procs -> label]: where each invocation stands
    builder,       \* [Procs -> ProcessBuilder fields]
    command_line,  \* run's local command_line
    desktop,       \* run's local desktop (the mapped name)
    token,         \* the token handle the caller currently owns
    inH,           \* the input handle of the wrapper in progress
    outH,          \* the output handle of the wrapper in progress
    process_information, \* [hThread, hProcess] filled by CreateProcessAsUserW
    errors,        \* the wrapper's local errors: Vec<String>
    result,        \* what run returned
    lastError,     \* the thread's last-error code (GetLastError)
    handles,       \* the OS handle table: handle id -> record
    calls,         \* [Procs -> sequence of OS calls made, in order]
    launch,        \* the arguments CreateProcessAsUserW received
    processes,     \* get_process_pid's local processes: the matching pids
    process_pid,   \* run's local process_pid
    active_session_id  \* get_current_user_token's local active_session_id

vars == << pc, builder, command_line, desktop, token, inH, outH,
           process_information, errors, result, lastError, handles, calls,
           launch, processes, process_pid, active_session_id >>

------------------------------------------------------------------------------
(* Strings and errors *)

ContainsNul(s) == \E i \in 1 .. Len(s) : s[i] = NUL

\* The position of the first nul of s (the position the error reports).
NulPosition(s) == CHOOSE i \in 1 .. Len(s) :
                     s[i] = NUL /\ \A j \in 1 .. (i - 1) : s[j] # NUL

\* A command line that leaves the separator out when there are no arguments.
command_line_trimmed(path, args) ==
    IF args = <<>> THEN path ELSE path \o <<" ">> \o args

\* format!("{} {}", self.path, self.args)
FormatCommandLine(path, args) == path \o <<" ">> \o args

\* A mapping that names the default desktop instead of leaving it empty.
desktop_always_named(d) ==
    IF d = "Secure" THEN <<"WinSta0\\Winlogon">> ELSE <<"WinSta0\\Default">>

\* match self.desktop { Default => "", Secure => "WinSta0\\Winlogon" }
DesktopName(d) == IF d = "Secure" THEN <<"WinSta0\\Winlogon">> ELSE <<>>

\* current_exe().parent()
ParentDir(exe) == SubSeq(exe, 1, Len(exe) - 1)

\* format!("<text>{last_error}"): one line, the text and the error it shows
Line(text, code) == [text |-> <<text>>, code |-> code]

RECURSIVE JoinNl(_)
\* errors.join("\n"): the lines of every message, in order
JoinNl(v) == IF v = <<>> THEN <<>> ELSE Head(v) \o JoinNl(Tail(v))

\* format!("<prefix>{err}"): the prefix goes in front of err's first line
Prefixed(prefix, err) ==
    << [Head(err) EXCEPT !.text = <<prefix>> \o @] >> \o Tail(err)

\* Result<_, String>; err is the String, as its lines
NoResult == [status |-> "none", err |-> <<>>]
Ok == [status |-> "Ok", err |-> <<>>]
Err(e) == [status |-> "Err", err |-> e]
OkVal(v) == [status |-> "Ok", err |-> <<>>, val |-> v]

\* U16CString::from_str: fails on a string that contains a nul.
U16CString_from_str(s) ==
    IF ContainsNul(s)
    THEN Err(<< Line("Cannot convert string to U16CString: ", NulPosition(s)) >>)
    ELSE Ok

------------------------------------------------------------------------------
(* The OS: the handle table and the outcome of a call *)

Success == [ok |-> TRUE, err |-> 0]

Failures == { [ok |-> FALSE, err |-> e] : e \in ErrCodes }

IsHandle(h) == h \in 1 .. Len(handles)

HandleOpen(h) == IsHandle(h) /\ handles[h].open

\* What the OS may answer to a call that takes no handle.
AnyOutcome == {Success} \cup Failures

\* What the OS may answer to a call on handle h: a call on a handle that is
\* not open (null, or closed) fails.
Outcomes(h) == IF HandleOpen(h) THEN {Success} \cup Failures ELSE Failures

\* A handle the OS hands out to invocation p.
NewHandle(p, origin, access, type) ==
    [ origin |-> origin, owner |-> p, desired_access |-> access,
      token_type |-> type, open |-> TRUE, closeCalls |-> 0 ]

\* The handle table after CloseHandle(h) answered o: a successful call closes
\* the handle, a failed one leaves it as it was.
AfterClose(h, o) ==
    IF IsHandle(h)
    THEN [handles EXCEPT ![h].open = IF o.ok THEN FALSE ELSE @,
                         ![h].closeCalls = @ + 1]
    ELSE handles

\* The record of one OS call of invocation p: the primitive, the handle it was
\* given, the OS's answer, and the handle's state when the call was made.
Logged(p, op, h, o) ==
    Append(calls[p],
           [ op |-> op, h |-> h, ok |-> o.ok, err |-> o.err,
             wasOpen |-> HandleOpen(h),
             priorCloses |-> IF IsHandle(h) THEN handles[h].closeCalls ELSE 0 ])

\* An OS call of p that is not CloseHandle: logged, and a failure sets the
\* thread's last error.
OsCall(p, op, h, o) ==
    /\ calls' = [calls EXCEPT ![p] = Logged(p, op, h, o)]
    /\ lastError' = [lastError EXCEPT ![p] = IF o.ok THEN @ ELSE o.err]

\* Error::last_os_error(), read right after the call of this step.
last_os_error(p) == lastError'[p]

\* close_token(h_object): CloseHandle, and on failure the error message.
close_token(p, h, o) ==
    /\ handles' = AfterClose(h, o)
    /\ OsCall(p, "CloseHandle", h, o)

close_token_result(p, o) ==
    IF o.ok THEN Ok
    ELSE Err(<< Line("Unable to close handle: ", last_os_error(p)) >>)

\* An `if let Err(_) = r {}` that drops the error.
push_nothing(v, r) == v

\* if let Err(err) = r { errors.push(err) }
PushErr(v, r) == IF r.status = "Err" THEN Append(v, r.err) ELSE v

\* run returns r.
Return(p, r) ==
    /\ result' = [result EXCEPT ![p] = r]
    /\ pc' = [pc EXCEPT ![p] = "done"]

Goto(p, label) ==
    /\ pc' = [pc EXCEPT ![p] = label]
    /\ UNCHANGED result

------------------------------------------------------------------------------
(* ProcessBuilder *)

runLocals == << command_line, desktop, token, inH, outH, process_information,
                errors, launch, processes, process_pid, active_session_id >>

osState == << lastError, handles, calls >>

\* A constructor that takes the executable's own path as the directory.
builder_in_exe(path) ==
    [ path |-> path, args |-> <<>>, directory |-> CurrentExe,
      desktop |-> "Default", elevation |-> "User" ]

\* ProcessBuilder::new(path)
NewBuilder(path) ==
    [ path |-> path, args |-> <<>>, directory |-> ParentDir(CurrentExe),
      desktop |-> "Default", elevation |-> "User" ]

new(p) ==
    /\ pc[p] = "new"
    /\ \E path \in Paths : builder' = [builder EXCEPT ![p] = NewBuilder(path)]
    /\ Goto(p, "built")
    /\ UNCHANGED << runLocals, osState >>

args(p) ==
    /\ pc[p] = "built"
    /\ \E a \in ArgStrings : builder' = [builder EXCEPT ![p].args = a]
    /\ UNCHANGED << pc, result, runLocals, osState >>

directory(p) ==
    /\ pc[p] = "built"
    /\ \E d \in DirStrings : builder' = [builder EXCEPT ![p].directory = d]
    /\ UNCHANGED << pc, result, runLocals, osState >>

set_desktop(p) ==
    /\ pc[p] = "built"
    /\ \E d \in Desktops : builder' = [builder EXCEPT ![p].desktop = d]
    /\ UNCHANGED << pc, result, runLocals, osState >>

elevation(p) ==
    /\ pc[p] = "built"
    /\ \E e \in Elevations : builder' = [builder EXCEPT ![p].elevation = e]
    /\ UNCHANGED << pc, result, runLocals, osState >>

\* A run that waits until a user has logged on before it resolves a token.
wait_for_logon(e) == "wait_for_logon"

\* The first call of the strategy that self.elevation selects.
FirstStep(e) ==
    IF e = "LocalSystem" THEN "get_process_pid"
    ELSE "wts_get_active_console_session_id"

\* run, up to the match on self.elevation
run(p) ==
    /\ pc[p] = "built"
    /\ command_line' = [command_line EXCEPT
                          ![p] = FormatCommandLine(builder[p].path, builder[p].args)]
    /\ desktop' = [desktop EXCEPT ![p] = DesktopName(builder[p].desktop)]
    /\ Goto(p, FirstStep(builder[p].elevation))
    /\ UNCHANGED << builder, token, inH, outH, process_information, errors,
                    launch, processes, process_pid, active_session_id, osState >>

------------------------------------------------------------------------------
(* Token resolution: LocalSystem *)

\* What processes_by_name("winlogon") may enumerate: the matching pids.
PidLists == { <<>>, <<612>>, <<612, 700>> }

\* processes.first().map(|process| process.pid().as_u32()): an Option, as a
\* sequence of length 0 or 1
first_pid(pids) == IF pids = <<>> THEN <<>> ELSE << Head(pids) >>

\* A lookup that falls back to pid 0 when nothing matches (unwrap_or_default).
pid_or_default(process_name, opt) ==
    IF opt = <<>> THEN OkVal(0) ELSE OkVal(opt[1])

\* match process_pid { None => Err(..), Some(process_pid) => Ok(process_pid) }
get_process_pid_result(process_name, opt) ==
    IF opt = <<>>
    THEN Err(<< [text |-> <<"No running processes by the name: ", process_name>>,
                 code |-> 0] >>)
    ELSE OkVal(opt[1])

get_process_pid(p) ==
    /\ pc[p] = "get_process_pid"
    /\ \E pids \in PidLists :
         LET r == get_process_pid_result("winlogon", first_pid(pids)) IN
         /\ processes' = [processes EXCEPT ![p] = pids]
         /\ calls' = [calls EXCEPT ![p] = Logged(p, "processes_by_name", NullHandle, Success)]
         /\ IF r.status = "Err"
            THEN Return(p, r) /\ UNCHANGED process_pid
            ELSE /\ process_pid' = [process_pid EXCEPT ![p] = r.val]
                 /\ Goto(p, "open_process")
    /\ UNCHANGED << builder, command_line, desktop, token, inH, outH,
                    process_information, errors, launch, active_session_id,
                    lastError, handles >>

\* open_process(PROCESS_QUERY_INFORMATION, false, pid)
open_process(p) ==
    /\ pc[p] = "open_process"
    /\ \E o \in AnyOutcome :
         /\ OsCall(p, "OpenProcess", NullHandle, o)
         /\ IF o.ok
            THEN /\ handles' = Append(handles,
                        NewHandle(p, "OpenProcess", {"PROCESS_QUERY_INFORMATION"}, "none"))
                 /\ inH' = [inH EXCEPT ![p] = Len(handles) + 1]
                 /\ Goto(p, "open_process_token")
            ELSE /\ Return(p, Err(<< Line("Could not obtain process: ", last_os_error(p)) >>))
                 /\ UNCHANGED << handles, inH >>
    /\ UNCHANGED << builder, command_line, desktop, token, outH,
                    process_information, errors, launch, processes, process_pid,
                    active_session_id >>

\* open_process_token: the OpenProcessToken call
open_process_token(p) ==
    /\ pc[p] = "open_process_token"
    /\ \E o \in Outcomes(inH[p]) :
         /\ OsCall(p, "OpenProcessToken", inH[p], o)
         /\ IF o.ok
            THEN /\ handles' = Append(handles,
                        NewHandle(p, "OpenProcessToken", TOKEN_ACCESS, "none"))
                 /\ outH' = [outH EXCEPT ![p] = Len(handles) + 1]
                 /\ Goto(p, "opt_close_process")
                 /\ UNCHANGED errors
            ELSE /\ outH' = [outH EXCEPT ![p] = NullHandle]
                 /\ errors' = [errors EXCEPT ![p] =
                       << << Line("Unable to open process token: ", last_os_error(p)) >> >>]
                 /\ Goto(p, "opt_fail_close_process")
                 /\ UNCHANGED handles
    /\ UNCHANGED << builder, command_line, desktop, token, inH,
                    process_information, launch, processes, process_pid, active_session_id >>

\* open_process_token, !success: close_token(process_handle)
opt_fail_close_process(p) ==
    /\ pc[p] = "opt_fail_close_process"
    /\ \E o \in Outcomes(inH[p]) :
         /\ close_token(p, inH[p], o)
         /\ errors' = [errors EXCEPT ![p] = PushErr(@, close_token_result(p, o))]
    /\ Goto(p, "opt_fail_close_token")
    /\ UNCHANGED << builder, command_line, desktop, token, inH, outH,
                    process_information, launch, processes, process_pid, active_session_id >>

\* open_process_token, !success: close_token(token_handle), return the errors
opt_fail_close_token(p) ==
    /\ pc[p] = "opt_fail_close_token"
    /\ \E o \in Outcomes(outH[p]) :
         /\ close_token(p, outH[p], o)
         /\ errors' = [errors EXCEPT ![p] = PushErr(@, close_token_result(p, o))]
    /\ Return(p, Err(JoinNl(errors'[p])))
    /\ UNCHANGED << builder, command_line, desktop, token, inH, outH,
                    process_information, launch, processes, process_pid, active_session_id >>

\* An open_process_token that goes on when the close of the process handle fails.
opt_close_process_unchecked(p) ==
    /\ pc[p] = "opt_close_process"
    /\ \E o \in Outcomes(inH[p]) : close_token(p, inH[p], o)
    /\ inH' = [inH EXCEPT ![p] = outH[p]]
    /\ Goto(p, "duplicate_token_ex")
    /\ UNCHANGED << builder, command_line, desktop, token, outH,
                    process_information, errors, launch, processes, process_pid,
                    active_session_id >>

\* open_process_token, success: close_token(process_handle)?; Ok(token_handle)
opt_close_process(p) ==
    /\ pc[p] = "opt_close_process"
    /\ \E o \in Outcomes(inH[p]) :
         /\ close_token(p, inH[p], o)
         /\ IF o.ok
            THEN /\ inH' = [inH EXCEPT ![p] = outH[p]]
                 /\ Goto(p, "duplicate_token_ex")
            ELSE /\ Return(p, close_token_result(p, o))
                 /\ UNCHANGED inH
    /\ UNCHANGED << builder, command_line, desktop, token, outH,
                    process_information, errors, launch, processes, process_pid,
                    active_session_id >>

------------------------------------------------------------------------------
(* Token resolution: User *)

\* What WTSGetActiveConsoleSessionId may return.
SessionIds == {1, 2}

wts_get_active_console_session_id(p) ==
    /\ pc[p] = "wts_get_active_console_session_id"
    /\ \E s \in SessionIds :
         active_session_id' = [active_session_id EXCEPT ![p] = s]
    /\ calls' = [calls EXCEPT
                   ![p] = Logged(p, "WTSGetActiveConsoleSessionId", NullHandle, Success)]
    /\ Goto(p, "wts_query_user_token")
    /\ UNCHANGED << builder, command_line, desktop, token, inH, outH,
                    process_information, errors, launch, processes,
                    process_pid, lastError, handles >>

\* wts_query_user_token: the WTSQueryUserToken call
wts_query_user_token(p) ==
    /\ pc[p] = "wts_query_user_token"
    /\ \E o \in AnyOutcome :
         /\ OsCall(p, "WTSQueryUserToken", NullHandle, o)
         /\ IF o.ok
            THEN /\ handles' = Append(handles,
                        NewHandle(p, "WTSQueryUserToken", {}, "none"))
                 /\ inH' = [inH EXCEPT ![p] = Len(handles) + 1]
                 /\ Goto(p, "duplicate_token_ex")
                 /\ UNCHANGED << outH, errors >>
            ELSE /\ outH' = [outH EXCEPT ![p] = NullHandle]
                 /\ errors' = [errors EXCEPT ![p] =
                       << << Line("Unable to obtain current user handle: ", last_os_error(p)) >> >>]
                 /\ Goto(p, "wts_fail_close_token")
                 /\ UNCHANGED << handles, inH >>
    /\ UNCHANGED << builder, command_line, desktop, token,
                    process_information, launch, processes, process_pid, active_session_id >>

\* wts_query_user_token, !success: close_token(token_handle), return the errors
wts_fail_close_token(p) ==
    /\ pc[p] = "wts_fail_close_token"
    /\ \E o \in Outcomes(outH[p]) :
         /\ close_token(p, outH[p], o)
         /\ errors' = [errors EXCEPT ![p] = PushErr(@, close_token_result(p, o))]
    /\ Return(p, Err(JoinNl(errors'[p])))
    /\ UNCHANGED << builder, command_line, desktop, token, inH, outH,
                    process_information, launch, processes, process_pid, active_session_id >>

------------------------------------------------------------------------------
(* duplicate_token_ex: shared by the three strategies *)

\* A run that launches with the user's token in every mode.
never_elevated(e) == "create_process_with_token"

\* What follows get_current_user_token / get_process_token in run.
AfterResolution(e) ==
    IF e = "Admin" THEN "get_token_information" ELSE "create_process_with_token"

\* duplicate_token_ex: the DuplicateTokenEx call
duplicate_token_ex(p) ==
    /\ pc[p] = "duplicate_token_ex"
    /\ \E o \in Outcomes(inH[p]) :
         /\ OsCall(p, "DuplicateTokenEx", inH[p], o)
         /\ IF o.ok
            THEN /\ handles' = Append(handles,
                        NewHandle(p, "DuplicateTokenEx", TOKEN_ACCESS, "TokenPrimary"))
                 /\ outH' = [outH EXCEPT ![p] = Len(handles) + 1]
                 /\ Goto(p, "dup_close_existing")
                 /\ UNCHANGED errors
            ELSE /\ outH' = [outH EXCEPT ![p] = NullHandle]
                 /\ errors' = [errors EXCEPT ![p] =
                       << << Line("Unable to duplicate token: ", last_os_error(p)) >> >>]
                 /\ Goto(p, "dup_fail_close_existing")
                 /\ UNCHANGED handles
    /\ UNCHANGED << builder, command_line, desktop, token, inH,
                    process_information, launch, processes, process_pid, active_session_id >>

\* A duplicate_token_ex that forgets the source on failure.
dup_fail_leaves_existing(p) ==
    /\ pc[p] = "dup_fail_close_existing"
    /\ Goto(p, "dup_fail_close_new")
    /\ UNCHANGED << builder, runLocals, osState >>

\* duplicate_token_ex, !duplicated: close_token(h_existing_token)
dup_fail_close_existing(p) ==
    /\ pc[p] = "dup_fail_close_existing"
    /\ \E o \in Outcomes(inH[p]) :
         /\ close_token(p, inH[p], o)
         /\ errors' = [errors EXCEPT ![p] = PushErr(@, close_token_result(p, o))]
    /\ Goto(p, "dup_fail_close_new")
    /\ UNCHANGED << builder, command_line, desktop, token, inH, outH,
                    process_information, launch, processes, process_pid, active_session_id >>

\* duplicate_token_ex, !duplicated: close_token(ph_new_token), return the errors
dup_fail_close_new(p) ==
    /\ pc[p] = "dup_fail_close_new"
    /\ \E o \in Outcomes(outH[p]) :
         /\ close_token(p, outH[p], o)
         /\ errors' = [errors EXCEPT ![p] = PushErr(@, close_token_result(p, o))]
    /\ Return(p, Err(JoinNl(errors'[p])))
    /\ UNCHANGED << builder, command_line, desktop, token, inH, outH,
                    process_information, launch, processes, process_pid, active_session_id >>

\* duplicate_token_ex, duplicated: close_token(h_existing_token)?; Ok(ph_new_token)
dup_close_existing(p) ==
    /\ pc[p] = "dup_close_existing"
    /\ \E o \in Outcomes(inH[p]) :
         /\ close_token(p, inH[p], o)
         /\ IF o.ok
            THEN /\ token' = [token EXCEPT ![p] = outH[p]]
                 /\ Goto(p, AfterResolution(builder[p].elevation))
            ELSE /\ Return(p, close_token_result(p, o))
                 /\ UNCHANGED token
    /\ UNCHANGED << builder, command_line, desktop, inH, outH,
                    process_information, errors, launch, processes, process_pid,
                    active_session_id >>

------------------------------------------------------------------------------
(* Token resolution: Admin *)

\* An add_admin_privileges_to_token that passes the error on unwrapped.
error_unwrapped(err) == err

\* format!("Could not elevate process token: {err}")
elevate_error(err) == Prefixed("Could not elevate process token: ", err)

\* An add_admin_privileges_to_token that returns the token it was given.
given_token(p) == token[p]

\* An add_admin_privileges_to_token that returns the handle the OS handed out
\* last, whoever asked for it.
latest_handle(p) == Len(handles)

\* Ok(token_linked.LinkedToken): the handle add_admin_privileges_to_token returns
linked_token(p) == outH[p]

\* get_token_information: the GetTokenInformation call on the token
get_token_information(p) ==
    /\ pc[p] = "get_token_information"
    /\ \E o \in Outcomes(token[p]) :
         /\ OsCall(p, "GetTokenInformation", token[p], o)
         /\ IF o.ok
            THEN /\ handles' = Append(handles,
                        NewHandle(p, "GetTokenInformation", {}, "none"))
                 /\ outH' = [outH EXCEPT ![p] = Len(handles) + 1]
                 /\ errors' = [errors EXCEPT ![p] = <<>>]
            ELSE /\ outH' = [outH EXCEPT ![p] = NullHandle]
                 /\ errors' = [errors EXCEPT ![p] =
                       << << Line("Unable to get token information: ", last_os_error(p)) >> >>]
                 /\ UNCHANGED handles
    /\ inH' = [inH EXCEPT ![p] = token[p]]
    /\ Goto(p, "gti_close_token")
    /\ UNCHANGED << builder, command_line, desktop, token,
                    process_information, launch, processes, process_pid, active_session_id >>

\* A get_token_information that closes the token only when the query succeeded.
gti_close_token_on_success(p) ==
    /\ pc[p] = "gti_close_token"
    /\ IF errors[p] # <<>>
       THEN /\ Return(p, Err(elevate_error(JoinNl(errors[p]))))
            /\ UNCHANGED << token, errors, handles, calls, lastError >>
       ELSE \E o \in Outcomes(inH[p]) :
              /\ close_token(p, inH[p], o)
              /\ errors' = [errors EXCEPT ![p] = PushErr(@, close_token_result(p, o))]
              /\ IF ~ o.ok
                 THEN /\ Return(p, Err(elevate_error(JoinNl(errors'[p]))))
                      /\ UNCHANGED token
                 ELSE /\ token' = [token EXCEPT ![p] = linked_token(p)]
                      /\ Goto(p, "create_process_with_token")
    /\ UNCHANGED << builder, command_line, desktop, inH, outH,
                    process_information, launch, processes, process_pid, active_session_id >>

\* get_token_information: close_token(token), return; then
\* add_admin_privileges_to_token wraps the error or returns the linked token
gti_close_token(p) ==
    /\ pc[p] = "gti_close_token"
    /\ \E o \in Outcomes(inH[p]) :
         /\ close_token(p, inH[p], o)
         /\ errors' = [errors EXCEPT ![p] = PushErr(@, close_token_result(p, o))]
    /\ IF errors'[p] # <<>>
       THEN /\ Return(p, Err(elevate_error(JoinNl(errors'[p]))))
            /\ UNCHANGED token
       ELSE /\ token' = [token EXCEPT ![p] = linked_token(p)]
            /\ Goto(p, "create_process_with_token")
    /\ UNCHANGED << builder, command_line, desktop, inH, outH,
                    process_information, launch, processes, process_pid, active_session_id >>

------------------------------------------------------------------------------
(* Process launch *)

RECURSIVE first_error(_)
\* A chain of `?`: the first Err of the results, in order, or Ok
first_error(rs) ==
    IF rs = <<>> THEN Ok
    ELSE IF Head(rs).status = "Err" THEN Head(rs) ELSE first_error(Tail(rs))

\* create_process_with_token, up to the OS call: the four conversions
create_process_with_token(p) ==
    /\ pc[p] = "create_process_with_token"
    /\ LET r == first_error(<< U16CString_from_str(builder[p].path),
                              U16CString_from_str(command_line[p]),
                              U16CString_from_str(builder[p].directory),
                              U16CString_from_str(desktop[p]) >>)
       IN IF r.status = "Err"
          THEN Return(p, r)
          ELSE Goto(p, "create_process_as_user_w")
    /\ UNCHANGED << builder, runLocals, osState >>

\* The arguments create_process_with_token passes to create_process_as_user_w.
LaunchArguments(p) ==
    [ token |-> token[p],
      application_name |-> builder[p].path,
      command_line |-> command_line[p],
      process_attributes |-> "None",
      thread_attributes |-> "None",
      inherit_handle |-> FALSE,
      creation_flags |-> 0,
      environment |-> "None",
      current_directory |-> builder[p].directory,
      lpDesktop |-> desktop[p] ]

\* create_process_as_user_w, !created: what it does before returning the error
create_failed(p) ==
    /\ Return(p, Err(JoinNl(<< << Line("Unable to create process: ", last_os_error(p)) >> >>)))
    /\ UNCHANGED << handles, process_information, errors >>

\* create_process_as_user_w: the CreateProcessAsUserW call
create_process_as_user_w(p) ==
    /\ pc[p] = "create_process_as_user_w"
    /\ launch' = [launch EXCEPT ![p] = Append(@, LaunchArguments(p))]
    /\ \E o \in Outcomes(token[p]) :
         /\ OsCall(p, "CreateProcessAsUserW", token[p], o)
         /\ IF o.ok
            THEN /\ handles' = handles \o
                        << NewHandle(p, "CreateProcessAsUserW.hThread", {}, "none"),
                           NewHandle(p, "CreateProcessAsUserW.hProcess", {}, "none") >>
                 /\ process_information' = [process_information EXCEPT
                        ![p] = [hThread |-> Len(handles) + 1,
                                hProcess |-> Len(handles) + 2]]
                 /\ errors' = [errors EXCEPT ![p] = <<>>]
                 /\ Goto(p, "cp_close_thread")
            ELSE create_failed(p)
    /\ UNCHANGED << builder, command_line, desktop, token, inH, outH,
                    processes, process_pid, active_session_id >>

\* A close of the thread handle written with `?`: a failure returns at once.
cp_close_thread_or_return(p) ==
    /\ pc[p] = "cp_close_thread"
    /\ \E o \in Outcomes(process_information[p].hThread) :
         /\ close_token(p, process_information[p].hThread, o)
         /\ IF o.ok
            THEN Goto(p, "cp_close_process")
            ELSE Return(p, close_token_result(p, o))
    /\ UNCHANGED << builder, command_line, desktop, token, inH, outH, errors,
                    process_information, launch, processes, process_pid,
                    active_session_id >>

\* create_process_as_user_w: close_token(process_information.hThread)
cp_close_thread(p) ==
    /\ pc[p] = "cp_close_thread"
    /\ \E o \in Outcomes(process_information[p].hThread) :
         /\ close_token(p, process_information[p].hThread, o)
         /\ errors' = [errors EXCEPT ![p] = PushErr(@, close_token_result(p, o))]
    /\ Goto(p, "cp_close_process")
    /\ UNCHANGED << builder, command_line, desktop, token, inH, outH,
                    process_information, launch, processes, process_pid, active_session_id >>

\* create_process_as_user_w: close_token(process_information.hProcess)
cp_close_process(p) ==
    /\ pc[p] = "cp_close_process"
    /\ \E o \in Outcomes(process_information[p].hProcess) :
         /\ close_token(p, process_information[p].hProcess, o)
         /\ errors' = [errors EXCEPT ![p] = PushErr(@, close_token_result(p, o))]
    /\ Goto(p, "cp_close_token")
    /\ UNCHANGED << builder, command_line, desktop, token, inH, outH,
                    process_information, launch, processes, process_pid, active_session_id >>

\* A return that drops the collected errors.
errors_ignored(v) == Ok

\* if !errors.is_empty() { return Err(errors.join("\n")) } Ok(())
errors_result(v) == IF v # <<>> THEN Err(JoinNl(v)) ELSE Ok

\* create_process_as_user_w: close_token(token), return; then
\* create_process_with_token pushes the error, joins and returns
cp_close_token(p) ==
    /\ pc[p] = "cp_close_token"
    /\ \E o \in Outcomes(token[p]) :
         /\ close_token(p, token[p], o)
         /\ errors' = [errors EXCEPT ![p] = PushErr(@, close_token_result(p, o))]
    /\ Return(p, errors_result(PushErr(<<>>, errors_result(errors'[p]))))
    /\ UNCHANGED << builder, command_line, desktop, token, inH, outH,
                    process_information, launch, processes, process_pid, active_session_id >>

------------------------------------------------------------------------------
(* The machine *)

NoBuilder ==
    [ path |-> <<>>, args |-> <<>>, directory |-> <<>>,
      desktop |-> "Default", elevation |-> "User" ]

InitLocals ==
    /\ builder = [p \in Procs |-> NoBuilder]
    /\ command_line = [p \in Procs |-> <<>>]
    /\ desktop = [p \in Procs |-> <<>>]
    /\ token = [p \in Procs |-> NullHandle]
    /\ inH = [p \in Procs |-> NullHandle]
    /\ outH = [p \in Procs |-> NullHandle]
    /\ process_information = [p \in Procs |->
                                [hThread |-> NullHandle, hProcess |-> NullHandle]]
    /\ errors = [p \in Procs |-> <<>>]
    /\ result = [p \in Procs |-> NoResult]
    /\ lastError = [p \in Procs |-> 0]
    /\ handles = <<>>
    /\ calls = [p \in Procs |-> <<>>]
    /\ launch = [p \in Procs |-> <<>>]
    /\ processes = [p \in Procs |-> <<>>]
    /\ process_pid = [p \in Procs |-> 0]
    /\ active_session_id = [p \in Procs |-> 0]

\* One caller builds a request and runs it.
Init ==
    /\ pc = [p \in Procs |-> IF p = "A" THEN "new" ELSE "off"]
    /\ InitLocals

\* Building the request: the constructor and the setters.
BuildStep(p) ==
    \/ new(p)
    \/ args(p)
    \/ directory(p)
    \/ set_desktop(p)
    \/ elevation(p)

\* run, from its call to its return.
RunStep(p) ==
    \/ run(p)
    \/ get_process_pid(p)
    \/ open_process(p)
    \/ open_process_token(p)
    \/ opt_fail_close_process(p)
    \/ opt_fail_close_token(p)
    \/ opt_close_process(p)
    \/ wts_get_active_console_session_id(p)
    \/ wts_query_user_token(p)
    \/ wts_fail_close_token(p)
    \/ duplicate_token_ex(p)
    \/ dup_fail_close_existing(p)
    \/ dup_fail_close_new(p)
    \/ dup_close_existing(p)
    \/ get_token_information(p)
    \/ gti_close_token(p)
    \/ create_process_with_token(p)
    \/ create_process_as_user_w(p)
    \/ cp_close_thread(p)
    \/ cp_close_process(p)
    \/ cp_close_token(p)

Step(p) == BuildStep(p) \/ RunStep(p)

Next == \E p \in Procs : Step(p)

Spec == Init /\ [][Next]_vars

\* A builder as the setters leave it, ready for run, with elevation e.
BuiltWith(e) == [ NewBuilder(<<"app.exe">>) EXCEPT !.args = <<"-v">>, !.elevation = e ]

\* Two threads, each about to call run on a builder of its own (equal builders
\* stand for one builder borrowed by both: run takes &self and only reads it).
\* The first launches in any mode, the second with the default elevation.
InitConc ==
    /\ pc = [p \in Procs |-> "built"]
    /\ \E e \in Elevations :
         builder = [p \in Procs |-> IF p = "A" THEN BuiltWith(e) ELSE BuiltWith("User")]
    /\ command_line = [p \in Procs |-> <<>>]
    /\ desktop = [p \in Procs |-> <<>>]
    /\ token = [p \in Procs |-> NullHandle]
    /\ inH = [p \in Procs |-> NullHandle]
    /\ outH = [p \in Procs |-> NullHandle]
    /\ process_information = [p \in Procs |->
                                [hThread |-> NullHandle, hProcess |-> NullHandle]]
    /\ errors = [p \in Procs |-> <<>>]
    /\ result = [p \in Procs |-> NoResult]
    /\ lastError = [p \in Procs |-> 0]
    /\ handles = <<>>
    /\ calls = [p \in Procs |-> <<>>]
    /\ launch = [p \in Procs |-> <<>>]
    /\ processes = [p \in Procs |-> <<>>]
    /\ process_pid = [p \in Procs |-> 0]
    /\ active_session_id = [p \in Procs |-> 0]

\* The two invocations of run, interleaved at every OS call.
NextConc == \E p \in Procs : RunStep(p)

SpecConc == InitConc /\ [][NextConc]_vars

\* run is synchronous: the calling thread executes it call after call, and
\* every OS call returns, so a run that can take a step takes it.
SpecFair == Spec /\ \A p \in Procs : WF_vars(RunStep(p))

------------------------------------------------------------------------------
(* What the claims speak of *)

Done(p) == pc[p] = "done"

\* The handles the OS handed to invocation p.
Acquired(p) == { h \in 1 .. Len(handles) : handles[h].owner = p }

\* The positions of p's calls of the primitive op.
CallsOf(p, op) == { i \in DOMAIN calls[p] : calls[p][i].op = op }

Failed(p, op) == \E i \in CallsOf(p, op) : ~ calls[p][i].ok

Succeeded(p, op) == \E i \in CallsOf(p, op) : calls[p][i].ok

\* The positions of p's CloseHandle calls on handle h.
ClosesOf(p, h) == { i \in CallsOf(p, "CloseHandle") : calls[p][i].h = h }

\* The message close_token returns for a failed CloseHandle call c.
CloseMessage(c) == Line("Unable to close handle: ", c.err)

------------------------------------------------------------------------------
(* C1.  No handle is passed to an OS call, CloseHandle included, after        *)
(* CloseHandle was called on it: every call on a handle finds it open and     *)
(* never closed before, and no handle is closed twice.                        *)
C1_NoUseAfterClose ==
    /\ \A p \in Procs : \A i \in DOMAIN calls[p] :
         IsHandle(calls[p][i].h) =>
             calls[p][i].wasOpen /\ calls[p][i].priorCloses = 0
    /\ \A h \in 1 .. Len(handles) : handles[h].closeCalls <= 1

\* An Admin run that went all the way: five handles acquired, used and closed.
C1_Witness ==
    \E p \in Procs :
        /\ Done(p) /\ builder[p].elevation = "Admin"
        /\ result[p].status = "Ok"
        /\ Cardinality(Acquired(p)) = 5

(* C2.  When run returns, every handle acquired during the invocation has     *)
(* been closed (CloseHandle was called on it).                                *)
C2_NoHandleOutlivesRun ==
    \A p \in Procs :
        Done(p) => \A h \in Acquired(p) : handles[h].closeCalls >= 1

(* C3.  If CreateProcessAsUserW fails, the token passed to it is closed       *)
(* exactly once before run returns.                                           *)
C3_CreationFailureClosesToken ==
    \A p \in Procs :
        (Done(p) /\ Failed(p, "CreateProcessAsUserW")) =>
            handles[token[p]].closeCalls = 1

(* C4.  run returns Ok only if process creation succeeded, every OS call of   *)
(* the invocation succeeded, and the thread handle, the process handle, the   *)
(* token and every handle of token resolution were each closed successfully   *)
(* exactly once.                                                              *)
C4_OkOnlyIfAllClosed ==
    \A p \in Procs :
        result[p].status = "Ok" =>
            /\ Succeeded(p, "CreateProcessAsUserW")
            /\ \A i \in DOMAIN calls[p] : calls[p][i].ok
            /\ { process_information[p].hThread, process_information[p].hProcess,
                 token[p] } \subseteq Acquired(p)
            /\ Cardinality({ process_information[p].hThread,
                             process_information[p].hProcess, token[p] }) = 3
            /\ \A h \in Acquired(p) :
                 ~ handles[h].open /\ handles[h].closeCalls = 1

\* A LocalSystem run that returned Ok.
C4_Witness ==
    \E p \in Procs :
        result[p].status = "Ok" /\ builder[p].elevation = "LocalSystem"

\* run returned the error of a wrapper of the token-resolution layer: an
\* error, before any process creation, that is not a conversion error.
ResolutionError(p) ==
    /\ Done(p) /\ result[p].status = "Err"
    /\ CallsOf(p, "CreateProcessAsUserW") = {}
    /\ Head(result[p].err).text # << "Cannot convert string to U16CString: " >>
    /\ Head(result[p].err).text # << "No running processes by the name: ", "winlogon" >>

(* C5.  Whenever a wrapper of the token-resolution layer returns an error,    *)
(* its input handle and any output handle the OS produced have been closed.   *)
C5_WrapperErrorClosesOwned ==
    \A p \in Procs :
        ResolutionError(p) =>
            \A h \in {inH[p], outH[p]} \cap Acquired(p) : handles[h].closeCalls >= 1


(* C6.  In every elevation mode the token handed to process creation is the   *)
(* output of a duplication that requested a primary token with exactly the    *)
(* rights query, duplicate and assign-primary.                                *)
C6_LaunchTokenIsDuplicate ==
    \A p \in Procs : \A i \in DOMAIN launch[p] :
        LET h == launch[p][i].token IN
        /\ IsHandle(h)
        /\ handles[h].origin = "DuplicateTokenEx"
        /\ handles[h].desired_access = TOKEN_ACCESS
        /\ handles[h].token_type = "TokenPrimary"

\* The handle whose CloseHandle call failed stays open; every other one is closed.
ClosedUnlessCloseFailed(p, h) ==
    handles[h].open <=> (\E i \in ClosesOf(p, h) : ~ calls[p][i].ok)

(* C7, as stated.  With Elevation::Admin, if GetTokenInformation fails, run   *)
(* returns an error that mentions "elevate", process creation is never        *)
(* invoked, and no handle acquired during the invocation remains open.        *)
C7_NoHandleRemainsOpen ==
    \A p \in Procs :
        (Done(p) /\ Failed(p, "GetTokenInformation")) =>
            /\ result[p].status = "Err"
            /\ Head(Head(result[p].err).text) = "Could not elevate process token: "
            /\ CallsOf(p, "CreateProcessAsUserW") = {}
            /\ \A h \in Acquired(p) : ~ handles[h].open /\ handles[h].closeCalls = 1

(* C7, amended.  With Elevation::Admin, if GetTokenInformation fails, run     *)
(* returns an error that starts "Could not elevate process token: ", process  *)
(* creation is never invoked, and CloseHandle has been called exactly once on *)
(* each of the two handles acquired (the user token and its duplicate): none  *)
(* remains open unless that CloseHandle call itself failed.                   *)
C7_AdminQueryFailure ==
    \A p \in Procs :
        (Done(p) /\ Failed(p, "GetTokenInformation")) =>
            /\ builder[p].elevation = "Admin"
            /\ result[p].status = "Err"
            /\ Head(Head(result[p].err).text) = "Could not elevate process token: "
            /\ CallsOf(p, "CreateProcessAsUserW") = {}
            /\ launch[p] = <<>>
            /\ { handles[h].origin : h \in Acquired(p) }
                  = {"WTSQueryUserToken", "DuplicateTokenEx"}
            /\ Cardinality(Acquired(p)) = 2
            /\ \A h \in Acquired(p) :
                 /\ handles[h].closeCalls = 1
                 /\ Cardinality(ClosesOf(p, h)) = 1
                 /\ ClosedUnlessCloseFailed(p, h)

\* The linked-token query failed, run returned, and both handles are closed.
C7_Witness ==
    \E p \in Procs :
        /\ Done(p) /\ Failed(p, "GetTokenInformation")
        /\ \A h \in Acquired(p) : ~ handles[h].open

(* C8.  With Elevation::LocalSystem, if the lookup finds no process named     *)
(* "winlogon", run returns the lookup error and makes no OS call: the lookup  *)
(* is the only entry of the call log and no handle is acquired.               *)
C8_LookupFailure ==
    \A p \in Procs :
        ( /\ builder[p].elevation = "LocalSystem"
          /\ pc[p] \notin {"off", "new", "built", "get_process_pid"}
          /\ processes[p] = <<>> ) =>
            /\ Done(p)
            /\ result[p] = Err(<< [ text |-> << "No running processes by the name: ",
                                               "winlogon" >>,
                                    code |-> 0 ] >>)
            /\ Len(calls[p]) = 1 /\ calls[p][1].op = "processes_by_name"
            /\ Acquired(p) = {}
            /\ launch[p] = <<>>

\* A LocalSystem run whose lookup found nothing has returned.
C8_Witness ==
    \E p \in Procs :
        /\ builder[p].elevation = "LocalSystem" /\ Done(p)
        /\ processes[p] = <<>> /\ Len(calls[p]) = 1

(* C9.  If DuplicateTokenEx fails, CloseHandle is called exactly once on the  *)
(* source handle, no duplicate is returned to the caller, and the first line  *)
(* of the returned error is "Unable to duplicate token: " with the last-error *)
(* of the failed duplication.                                                 *)
C9_DuplicationFailure ==
    \A p \in Procs : \A i \in CallsOf(p, "DuplicateTokenEx") :
        (Done(p) /\ ~ calls[p][i].ok) =>
            LET src == calls[p][i].h IN
            /\ src \in Acquired(p)
            /\ handles[src].closeCalls = 1
            /\ Cardinality(ClosesOf(p, src)) = 1
            /\ ClosedUnlessCloseFailed(p, src)
            /\ token[p] = NullHandle
            /\ \A h \in Acquired(p) : handles[h].origin # "DuplicateTokenEx"
            /\ result[p].status = "Err"
            /\ Head(result[p].err) = Line("Unable to duplicate token: ", calls[p][i].err)

\* A duplication failed with one error code and the close of the source then
\* failed with another.
C9_Witness ==
    \E p \in Procs : \E i \in CallsOf(p, "DuplicateTokenEx") :
        /\ Done(p) /\ ~ calls[p][i].ok
        /\ \E j \in ClosesOf(p, calls[p][i].h) :
             ~ calls[p][j].ok /\ calls[p][j].err # calls[p][i].err

RECURSIVE CloseFailures(_)
\* The messages of the failed calls among the calls cs, in order.
CloseFailures(cs) ==
    IF cs = <<>> THEN <<>>
    ELSE (IF Head(cs).ok THEN <<>> ELSE << CloseMessage(Head(cs)) >>)
         \o CloseFailures(Tail(cs))

(* C10.  If process creation succeeds, CloseHandle is called on the thread    *)
(* handle, the process handle and the token, in that order, whatever the      *)
(* earlier closes answered, and run returns Ok if all three succeeded and     *)
(* otherwise an error made of the close-failure messages in that order.       *)
C10_CleanupFailure ==
    \A p \in Procs : \A i \in CallsOf(p, "CreateProcessAsUserW") :
        (Done(p) /\ calls[p][i].ok) =>
            LET after == SubSeq(calls[p], i + 1, Len(calls[p])) IN
            /\ Len(after) = 3
            /\ \A k \in 1 .. 3 : after[k].op = "CloseHandle"
            /\ << after[1].h, after[2].h, after[3].h >>
                  = << process_information[p].hThread,
                       process_information[p].hProcess, token[p] >>
            /\ result[p] = IF CloseFailures(after) = <<>> THEN Ok
                           ELSE Err(CloseFailures(after))

\* Process creation succeeded, then the close of the thread handle and the
\* close of the token failed.
C10_Witness ==
    \E p \in Procs :
        /\ Done(p) /\ Succeeded(p, "CreateProcessAsUserW")
        /\ Len(result[p].err) = 2
        /\ ~ handles[process_information[p].hProcess].open
        /\ handles[process_information[p].hThread].open
        /\ handles[token[p]].open


------------------------------------------------------------------------------
\* The text of the message the code builds when the primitive op fails.
FailureText(op) ==
    CASE op = "CloseHandle" -> "Unable to close handle: "
      [] op = "OpenProcess" -> "Could not obtain process: "
      [] op = "OpenProcessToken" -> "Unable to open process token: "
      [] op = "DuplicateTokenEx" -> "Unable to duplicate token: "
      [] op = "WTSQueryUserToken" -> "Unable to obtain current user handle: "
      [] op = "GetTokenInformation" -> "Unable to get token information: "
      [] op = "CreateProcessAsUserW" -> "Unable to create process: "
      [] OTHER -> "?"

RECURSIVE FailureLines(_)
\* One line for each failed call among the calls cs, in order: the message of
\* the primitive with the error code the OS gave.
FailureLines(cs) ==
    IF cs = <<>> THEN <<>>
    ELSE (IF Head(cs).ok THEN <<>>
          ELSE << Line(FailureText(Head(cs).op), Head(cs).err) >>)
         \o FailureLines(Tail(cs))

\* The lines of an error without the context a caller put in front of them.
Unwrapped(err) ==
    [ k \in 1 .. Len(err) |->
        [ text |-> << err[k].text[Len(err[k].text)] >>, code |-> err[k].code ] ]

(* C11.  Whenever run returns an error, the error holds one line for every    *)
(* OS call that failed during the invocation, CloseHandle calls included,     *)
(* each with that call's error code, in the order the calls failed; when no   *)
(* OS call failed the error is the one line of the lookup or the conversion.  *)
C11_EveryFailureReported ==
    \A p \in Procs :
        (Done(p) /\ result[p].status = "Err") =>
            IF FailureLines(calls[p]) # <<>>
            THEN Unwrapped(result[p].err) = FailureLines(calls[p])
            ELSE /\ Len(result[p].err) = 1
                 /\ Head(result[p].err).text[1] \in
                       { "No running processes by the name: ",
                         "Cannot convert string to U16CString: " }

\* OpenProcessToken failed, then both closes failed: three lines.
C11_Witness ==
    \E p \in Procs :
        /\ Done(p) /\ Failed(p, "OpenProcessToken")
        /\ Len(result[p].err) = 3
        /\ result[p].err[2].code # result[p].err[1].code


(* C12.  Whenever run reaches process creation, CreateProcessAsUserW gets the *)
(* resolved token (an open handle of this invocation), the path as            *)
(* application name, the path, one space and the arguments as command line    *)
(* (also when the arguments are empty), no process or thread attributes, no   *)
(* handle inheritance, creation flags 0, no environment block, the builder's  *)
(* directory, and the mapped desktop name.                                    *)
C12_CreationArguments ==
    \A p \in Procs :
        /\ Len(launch[p]) = Cardinality(CallsOf(p, "CreateProcessAsUserW"))
        /\ \A i \in DOMAIN launch[p] :
             /\ launch[p][i] =
                  [ token |-> token[p],
                    application_name |-> builder[p].path,
                    command_line |-> builder[p].path \o <<" ">> \o builder[p].args,
                    process_attributes |-> "None",
                    thread_attributes |-> "None",
                    inherit_handle |-> FALSE,
                    creation_flags |-> 0,
                    environment |-> "None",
                    current_directory |-> builder[p].directory,
                    lpDesktop |-> IF builder[p].desktop = "Secure"
                                  THEN <<"WinSta0\\Winlogon">> ELSE <<>> ]
             /\ token[p] \in Acquired(p)
             /\ \A j \in CallsOf(p, "CreateProcessAsUserW") :
                  calls[p][j].h = token[p] /\ calls[p][j].wasOpen

\* Process creation was called for a request with no arguments, a directory
\* of its own and the secure desktop.
C12_Witness ==
    \E p \in Procs :
        /\ Len(launch[p]) = 1
        /\ builder[p].args = <<>>
        /\ builder[p].directory = <<"C:\\tools">>
        /\ builder[p].desktop = "Secure"

(* C13.  The desktop name run computes, and the one process creation gets, is *)
(* exactly WinSta0\Winlogon when the desktop is Secure and the empty string   *)
(* when it is Default.                                                        *)
C13_DesktopName ==
    \A p \in Procs :
        /\ pc[p] \notin {"off", "new", "built"} =>
             /\ builder[p].desktop = "Secure" => desktop[p] = <<"WinSta0\\Winlogon">>
             /\ builder[p].desktop = "Default" => desktop[p] = <<>>
        /\ \A i \in DOMAIN launch[p] :
             /\ builder[p].desktop = "Secure" =>
                  launch[p][i].lpDesktop = <<"WinSta0\\Winlogon">>
             /\ builder[p].desktop = "Default" => launch[p][i].lpDesktop = <<>>

\* Process creation was called with the Default desktop's empty name.
C13_Witness ==
    \E p \in Procs :
        /\ Len(launch[p]) = 1
        /\ builder[p].desktop = "Default"
        /\ launch[p][1].lpDesktop = <<>>

BuilderFields == {"path", "args", "directory", "desktop", "elevation"}

\* Of invocation p's builder, only the field f may differ after the step.
OnlyChanges(p, f) ==
    \A g \in BuilderFields \ {f} : builder'[p][g] = builder[p][g]

(* C14.  A builder made from a path alone has empty arguments, the Default    *)
(* desktop, User elevation and the parent directory of the running            *)
(* executable; each setter then leaves the four other fields as they were.    *)
C14_BuilderDefaultsAndSetters ==
    [][ \A p \in Procs :
          /\ new(p) =>
               /\ builder'[p].path \in Paths
               /\ builder'[p].args = <<>>
               /\ builder'[p].desktop = "Default"
               /\ builder'[p].elevation = "User"
               /\ builder'[p].directory \o << CurrentExe[Len(CurrentExe)] >> = CurrentExe
          /\ args(p) => OnlyChanges(p, "args")
          /\ directory(p) => OnlyChanges(p, "directory")
          /\ set_desktop(p) => OnlyChanges(p, "desktop")
          /\ elevation(p) => OnlyChanges(p, "elevation")
      ]_vars

\* A builder on which every setter acted.
C14_Witness ==
    \E p \in Procs :
        /\ pc[p] = "built"
        /\ builder[p].args = <<"-v">>
        /\ builder[p].directory = <<"C:\\tools">>
        /\ builder[p].desktop = "Secure"
        /\ builder[p].elevation = "LocalSystem"


\* The primitives of the strategy of elevation e, in the order run calls them.
StrategyCalls(e) ==
    CASE e = "User" ->
           << "WTSGetActiveConsoleSessionId", "WTSQueryUserToken", "DuplicateTokenEx" >>
      [] e = "Admin" ->
           << "WTSGetActiveConsoleSessionId", "WTSQueryUserToken", "DuplicateTokenEx",
              "GetTokenInformation" >>
      [] e = "LocalSystem" ->
           << "processes_by_name", "OpenProcess", "OpenProcessToken", "DuplicateTokenEx" >>

\* The calls of p that are not CloseHandle calls, in order.
NonCloseCalls(p) == SelectSeq(calls[p], LAMBDA c : c.op # "CloseHandle")

Ops(cs) == [ k \in 1 .. Len(cs) |-> cs[k].op ]

IsPrefix(a, b) == Len(a) <= Len(b) /\ a = SubSeq(b, 1, Len(a))

(* C15.  The calls of one invocation, CloseHandle calls aside, are a prefix   *)
(* of the strategy's sequence followed by one CreateProcessAsUserW: User is   *)
(* session id, user token, duplication; Admin adds the linked-token query;    *)
(* LocalSystem is lookup, open process, open process token, duplication.      *)
(* Process creation is called at most once, and only after every call of the  *)
(* strategy, its closes included, succeeded and left a token.                 *)
C15_CallOrder ==
    \A p \in Procs :
        /\ IsPrefix(Ops(NonCloseCalls(p)),
                    StrategyCalls(builder[p].elevation) \o << "CreateProcessAsUserW" >>)
        /\ \A i \in CallsOf(p, "CreateProcessAsUserW") :
             /\ \A j \in 1 .. (i - 1) : calls[p][j].ok
             /\ token[p] \in Acquired(p)
             /\ handles[token[p]].origin \in {"DuplicateTokenEx", "GetTokenInformation"}

\* An Admin run reached process creation after its four strategy calls.
C15_Witness ==
    \E p \in Procs :
        /\ builder[p].elevation = "Admin"
        /\ Len(NonCloseCalls(p)) = 5

NonCloseOps ==
    { "WTSQueryUserToken", "OpenProcess", "OpenProcessToken", "DuplicateTokenEx",
      "GetTokenInformation", "CreateProcessAsUserW" }

(* C16.  Each primitive other than CloseHandle is called at most once in an   *)
(* invocation, and once any OS call has failed only CloseHandle calls follow  *)
(* before run returns its error.                                              *)
C16_NoRetryFirstFailureTerminal ==
    \A p \in Procs :
        /\ \A op \in NonCloseOps : Cardinality(CallsOf(p, op)) <= 1
        /\ \A i, j \in DOMAIN calls[p] :
             (i < j /\ ~ calls[p][i].ok) => calls[p][j].op = "CloseHandle"
        /\ (\E i \in DOMAIN calls[p] : ~ calls[p][i].ok) => result[p].status # "Ok"

\* The close of the process handle failed after OpenProcessToken succeeded,
\* and run returned without duplicating the token.
C16_Witness ==
    \E p \in Procs :
        /\ Done(p) /\ Succeeded(p, "OpenProcessToken")
        /\ CallsOf(p, "DuplicateTokenEx") = {}
        /\ result[p].status = "Err"


\* The consuming wrappers, by the primitive each one calls on its input handle.
ConsumingOps == { "OpenProcessToken", "DuplicateTokenEx", "GetTokenInformation" }

\* The labels at which the wrapper of op has called op and has not yet called
\* close_token on its input handle.
BeforeInputClose(op) ==
    CASE op = "OpenProcessToken" -> { "opt_fail_close_process", "opt_close_process" }
      [] op = "DuplicateTokenEx" -> { "dup_fail_close_existing", "dup_close_existing" }
      [] op = "GetTokenInformation" -> { "gti_close_token" }

(* C17.  open_process_token, duplicate_token_ex and get_token_information     *)
(* each call CloseHandle on their input handle exactly once, whether the      *)
(* primitive succeeded or failed: never before the primitive, never twice,    *)
(* and once when the wrapper has returned.  No OS call is made on the input   *)
(* handle after that close.                                                   *)
C17_InputClosedOnceThenUnused ==
    \A p \in Procs : \A op \in ConsumingOps : \A i \in CallsOf(p, op) :
        LET h == calls[p][i].h
            closes == ClosesOf(p, h)
        IN  /\ IsHandle(h)
            /\ Cardinality(closes) <= 1
            /\ \A c \in closes : c > i
            /\ pc[p] \notin BeforeInputClose(op) => Cardinality(closes) = 1
            /\ \A c \in closes : \A j \in DOMAIN calls[p] : j > c => calls[p][j].h # h

\* An Admin run has returned after duplicate_token_ex succeeded and
\* get_token_information failed: one wrapper on each of its return paths.
C17_Witness ==
    \E p \in Procs :
        /\ Done(p)
        /\ Succeeded(p, "DuplicateTokenEx")
        /\ Failed(p, "GetTokenInformation")

(* C18.  Every CloseHandle call of run is made on a handle that an earlier OS *)
(* call of the same invocation produced and that is open at the time of the   *)
(* call; CloseHandle is never called on the null output handle of a failed    *)
(* call.                                                                      *)
C18_EveryCloseTargetsOpen ==
    \A p \in Procs : \A i \in CallsOf(p, "CloseHandle") :
        /\ calls[p][i].h # NullHandle
        /\ calls[p][i].h \in Acquired(p)
        /\ calls[p][i].wasOpen


\* Every OS call of p that was given a handle was given one p acquired, and
\* every CloseHandle call on a handle was made by the invocation that acquired it.
OwnHandlesOnly(p) ==
    /\ \A i \in DOMAIN calls[p] :
         calls[p][i].h # NullHandle => calls[p][i].h \in Acquired(p)
    /\ \A h \in Acquired(p) :
         handles[h].closeCalls = Cardinality(ClosesOf(p, h))

\* The result of p follows from the answers to p's own calls.
OwnOutcome(p) ==
    Done(p) =>
        (result[p].status = "Ok" <=>
            /\ Succeeded(p, "CreateProcessAsUserW")
            /\ \A i \in DOMAIN calls[p] : calls[p][i].ok)

\* This step leaves invocation q, and the handles q acquired, as they were.
Untouched(q) ==
    /\ UNCHANGED << pc[q], result[q], calls[q], token[q], inH[q], outH[q],
                    errors[q], lastError[q], process_information[q], launch[q],
                    command_line[q], desktop[q], builder[q] >>
    /\ \A h \in 1 .. Len(handles) :
         handles[h].owner = q => handles'[h] = handles[h]
    /\ \A h \in (Len(handles) + 1) .. Len(handles') : handles'[h].owner # q

(* C19.  With two run invocations interleaved at every OS call, each handle   *)
(* is passed to OS calls, CloseHandle included, only by the invocation that   *)
(* acquired it; a step of one invocation changes nothing of the other         *)
(* invocation or of its handles; and each invocation's result follows from    *)
(* the answers to its own calls.                                              *)
C19_InvocationsIsolated ==
    /\ [](\A p \in Procs : OwnHandlesOnly(p) /\ OwnOutcome(p))
    /\ [][\E p \in Procs : \A q \in Procs \ {p} : Untouched(q)]_vars

\* Both invocations returned Ok, and the OS handed out their handles in turn.
C19_Witness ==
    /\ \A p \in Procs : Done(p) /\ result[p].status = "Ok"
    /\ \E h \in 2 .. (Len(handles) - 1) :
         /\ handles[h].owner = "B"
         /\ handles[h - 1].owner = "A"
         /\ handles[h + 1].owner = "A"


\* run has been called and has not returned.
Running(p) == pc[p] \notin {"off", "new", "built", "done"}

(* C20.  Given that every OS call returns, an invocation of run that has      *)
(* started eventually returns, in every elevation mode and whatever the OS    *)
(* answers; it has no result before it returns, it returns Ok or Err, and     *)
(* once returned it stays returned with the same result.                      *)
C20_RunTerminates ==
    /\ \A p \in Procs : Running(p) ~> Done(p)
    /\ [](\A p \in Procs :
            IF Done(p) THEN result[p].status \in {"Ok", "Err"}
            ELSE result[p] = NoResult)
    /\ [][\A p \in Procs : Done(p) => (Done(p)' /\ result'[p] = result[p])]_vars

\* A LocalSystem run went through every call of its strategy and returned Ok.
C20_Witness ==
    \E p \in Procs :
        /\ Done(p)
        /\ builder[p].elevation = "LocalSystem"
        /\ result[p].status = "Ok"

==============================================================================
